---- MODULE Spec2Model ----
(***************************************************************************)
(* The one-shot prune pass PurgeDB() of src/src/purge.cpp: lock the data   *)
(* directory, load the block index, classify blocks (setNeed, setDelete),  *)
(* strip the data/undo flags of the prunable blocks and erase their        *)
(* transaction-index entries, then delete the blk/rev files whose index    *)
(* is not needed.                                                           *)
(*                                                                         *)
(* Persistent state (survives a process): diskIndex, txindex, dirExists,   *)
(* dir, lock.  Process state (one PurgeDB process per element of Inst,     *)
(* run one after the other): pc, mapBlockIndex, chainHeight, setNeed,      *)
(* setDelete, todo, scan and the record of what the process did.           *)
(***************************************************************************)
EXTENDS Integers, Sequences, FiniteSets, TLC

\* ---------------------------------------------------------------- bounds
NBlocks == 3          \* block records in the index: hashes 1..NBlocks
MaxDirEntries == 2    \* entries in the blocks directory

\* ------------------------------------------------------- program constants
MIN_HISTORY == 1      \* retention window, scaled down with the heights
NoHeight == -1        \* chainActive.Height() of an empty chain
NoExit == -1          \* the process has not called exit()
EXIT_STATUS == 0      \* exit(0), on every path
Aborted == -6         \* ended by abort() (SIGABRT) after an uncaught exception

Free == 0             \* nobody holds the lock on <datadir>/.lock
Node == 9             \* the lock is held by a running node (not a PurgeDB process)

BLOCK_VALID == "VALID"
BLOCK_HAVE_DATA == "HAVE_DATA"
BLOCK_HAVE_UNDO == "HAVE_UNDO"

Inst == {1, 2}        \* the pass, and the pass run again afterwards
Blocks == 1..NBlocks
Files == {0, 1}           \* the file-ids of the block records

\* Height and transactions of a block are fixed by its hash.
\* Block 1 (a stale block) and block 2 both contain transaction 2.
BlockHeight(b) == b - 1
Vtx(b) == IF b = 1 THEN {1, 2} ELSE {b}

Statuses == { {BLOCK_VALID},
              {BLOCK_VALID, BLOCK_HAVE_DATA},
              {BLOCK_VALID, BLOCK_HAVE_DATA, BLOCK_HAVE_UNDO} }

\* ----------------------------------------------------------- file names
\* A file name is a sequence of characters.
Name_blk0 == <<"b","l","k","0","0","0","0","0",".","d","a","t">>   \* blk00000.dat
Name_rev0 == <<"r","e","v","0","0","0","0","0",".","d","a","t">>   \* rev00000.dat
Name_long == <<"b","l","k","0","0","0","0","0","0","0","0","1",".","d","a","t">>
                                                                   \* blk000000001.dat
Name_notes == <<"b","l","k","1","n","o","t","e","s",".","m","d">>  \* blk1notes.md
Name_index == <<"b","l","k","i","n","d","e","x",".","d","a","t">>  \* blkindex.dat
Name_other == <<"a","b","c","0","0","0","0","1",".","d","a","t">>  \* abc00001.dat

NameUniverse == { Name_blk0, Name_rev0, Name_long, Name_notes, Name_index, Name_other }

DigitChars == {"0","1","2","3","4","5","6","7","8","9"}
DigitVal(c) == CASE c = "0" -> 0 [] c = "1" -> 1 [] c = "2" -> 2 [] c = "3" -> 3
                 [] c = "4" -> 4 [] c = "5" -> 5 [] c = "6" -> 6 [] c = "7" -> 7
                 [] c = "8" -> 8 [] c = "9" -> 9

\* fname.compare(0, 3, tag): 0 iff the first three characters are tag.
ComparePrefix(fname, tag) ==
    IF Len(fname) >= 3 /\ SubSeq(fname, 1, 3) = tag THEN 0 ELSE 1

\* The white-space characters of isspace(): space, \t, \n, \v, \f, \r
\* (the vertical tab written "VT").
WhiteSpace == {" ", "\t", "\n", "VT", "\f", "\r"}

\* The %d conversion of sscanf: skip white space, an optional sign, then the
\* longest run of decimal digits.  Result <<converted, value, rest>>.
RECURSIVE SkipSpace(_)
SkipSpace(s) == IF s # <<>> /\ Head(s) \in WhiteSpace THEN SkipSpace(Tail(s)) ELSE s

RECURSIVE ScanDigits(_, _, _)
ScanDigits(s, acc, n) ==
    IF s # <<>> /\ Head(s) \in DigitChars
    THEN ScanDigits(Tail(s), 10 * acc + DigitVal(Head(s)), n + 1)
    ELSE <<n, acc, s>>

ScanInt(s) ==
    LET t == SkipSpace(s)
        neg == t # <<>> /\ Head(t) = "-"
        u == IF t # <<>> /\ Head(t) \in {"+", "-"} THEN Tail(t) ELSE t
        d == ScanDigits(u, 0, 0)
    IN  [converted |-> d[1] > 0,
         value |-> IF neg THEN 0 - d[2] ELSE d[2],
         rest |-> d[3]]

\* sscanf(str, "%d.dat", &idx): the number of conversions made (the literal
\* ".dat" after the only conversion cannot change it), and idx (0 if none).
Sscanf_d_dat(str) ==
    LET r == ScanInt(str)
    IN  [count |-> IF r.converted THEN 1
                   ELSE IF SkipSpace(str) = <<>> THEN 0 - 1 ELSE 0,
         idx |-> IF r.converted THEN r.value ELSE 0]

\* ------------------------------------------------------- the classifier
\* Line 63: the block is inside the retention window.
InWindow(rec, tip) == rec.nHeight + MIN_HISTORY >= tip

\* Line 74: the block is older than the retention window.
OlderThanWindow(rec, tip) == rec.nHeight + MIN_HISTORY < tip

\* Line 65/76: the block has data or undo data on disk.
HasDataOrUndo(rec) ==
    BLOCK_HAVE_DATA \in rec.nStatus \/ BLOCK_HAVE_UNDO \in rec.nStatus

\* The first pass with the insert under the flag test of line 65.
NeedFiles_FlaggedOnly(index, tip) ==
    { index[b].nFile : b \in { c \in DOMAIN index :
                                  InWindow(index[c], tip) /\ HasDataOrUndo(index[c]) } }

\* First pass (lines 61-69): the file of every block in the window is needed,
\* whatever its flags (the flag test only guards a log line).
NeedFiles(index, tip) ==
    { index[b].nFile : b \in { c \in DOMAIN index : InWindow(index[c], tip) } }

\* The second pass without the test of setNeed (line 78).
DeleteSet_IgnoreNeed(index, tip, need) ==
    { b \in DOMAIN index : /\ OlderThanWindow(index[b], tip)
                           /\ HasDataOrUndo(index[b]) }

\* Second pass (lines 72-82).
DeleteSet(index, tip, need) ==
    { b \in DOMAIN index : /\ OlderThanWindow(index[b], tip)
                           /\ HasDataOrUndo(index[b])
                           /\ index[b].nFile \notin need }

\* The loops of lines 61 and 72 visit the records of mapBlockIndex in the
\* order of the map: any order.
BlockOrders ==
    { o \in [1..NBlocks -> Blocks] : \A j \in 1..NBlocks, k \in 1..NBlocks : o[j] = o[k] => j = k }

\* Lines 61-69 as the loop runs them, record by record in the order `order`.
RECURSIVE FirstPassLoop(_, _, _, _)
FirstPassLoop(order, index, tip, need) ==
    IF order = <<>> THEN need
    ELSE LET rec == index[Head(order)]
         IN  FirstPassLoop(Tail(order), index, tip,
                           IF InWindow(rec, tip) THEN need \cup {rec.nFile} ELSE need)

\* Lines 72-82 with line 80 assigning the block instead of inserting it.
RECURSIVE SecondPassLoop_Overwrite(_, _, _, _, _)
SecondPassLoop_Overwrite(order, index, tip, need, del) ==
    IF order = <<>> THEN del
    ELSE LET b == Head(order)
         IN  SecondPassLoop_Overwrite(Tail(order), index, tip, need,
                 IF /\ OlderThanWindow(index[b], tip)
                    /\ HasDataOrUndo(index[b])
                    /\ index[b].nFile \notin need
                 THEN {b} ELSE del)

\* Lines 72-82 as the loop runs them, record by record in the order `order`.
RECURSIVE SecondPassLoop(_, _, _, _, _)
SecondPassLoop(order, index, tip, need, del) ==
    IF order = <<>> THEN del
    ELSE LET b == Head(order)
         IN  SecondPassLoop(Tail(order), index, tip, need,
                 IF /\ OlderThanWindow(index[b], tip)
                    /\ HasDataOrUndo(index[b])
                    /\ index[b].nFile \notin need
                 THEN del \cup {b} ELSE del)

\* Line 52 with < for <=.
NotEnoughHistory_Strict(height) == height < MIN_HISTORY

\* Line 52.
NotEnoughHistory(height) == height <= MIN_HISTORY

\* Line 93 clearing every bit of nStatus.
ClearFlags_All(nStatus) == {}

\* Line 93 clearing BLOCK_HAVE_DATA only.
ClearFlags_DataOnly(nStatus) == nStatus \ {BLOCK_HAVE_DATA}

\* Line 93: nStatus &= ~(BLOCK_HAVE_DATA | BLOCK_HAVE_UNDO).
ClearFlags(nStatus) == nStatus \ {BLOCK_HAVE_DATA, BLOCK_HAVE_UNDO}

\* Lines 106-117 without the test of line 116.
ReapDeletes_NoNeedTest(fname, need) ==
    /\ Len(fname) = 12
    /\ ~ (ComparePrefix(fname, <<"r","e","v">>) # 0 /\ ComparePrefix(fname, <<"b","l","k">>) # 0)
    /\ Sscanf_d_dat(SubSeq(fname, 4, Len(fname))).count = 1

\* Lines 106-117 with the tag "blk" only.
ReapDeletes_BlkOnly(fname, need) ==
    /\ Len(fname) = 12
    /\ ComparePrefix(fname, <<"b","l","k">>) = 0
    /\ Sscanf_d_dat(SubSeq(fname, 4, Len(fname))).count = 1
    /\ Sscanf_d_dat(SubSeq(fname, 4, Len(fname))).idx \notin need

\* Lines 106-117: the file named fname is removed.
ReapDeletes(fname, need) ==
    /\ Len(fname) = 12
    /\ ~ (ComparePrefix(fname, <<"r","e","v">>) # 0 /\ ComparePrefix(fname, <<"b","l","k">>) # 0)
    /\ Sscanf_d_dat(SubSeq(fname, 4, Len(fname))).count = 1
    /\ Sscanf_d_dat(SubSeq(fname, 4, Len(fname))).idx \notin need

\* ------------------------------------------------ the external stores
\* blockCache.ReadBlockFromDisk(block, pindex): the transactions of the block
\* when the read succeeds; `block` stays as constructed (no transaction) when
\* it fails.
ReadBlockFromDisk(b, ok) == IF ok THEN Vtx(b) ELSE {}

\* pblocktree->EraseTxIndex(txid) for every transaction of vtx: erasing an
\* absent entry is no error.
EraseTxIndex(idx, vtx) == idx \ vtx

\* pblocktree->WriteBlockIndex(record): the record is persisted when the write
\* succeeds, the store is unchanged when it fails.
WriteBlockIndex(disk, b, rec, ok) == IF ok THEN [disk EXCEPT ![b] = rec] ELSE disk

\* The transaction index of a node that indexes the blocks it has data for.
TxIndexOf(index) ==
    UNION { Vtx(b) : b \in { c \in DOMAIN index : BLOCK_HAVE_DATA \in index[c].nStatus } }

\* An unlock() that releases nothing.
Unlock_Never(holder, i) == holder

\* file_lock::unlock() by process i releases the lock only of process i.
Unlock(holder, i) == IF holder = i THEN Free ELSE holder

\* ------------------------------------------------------------ the state
VARIABLES
    diskIndex,      \* the persisted block records: block -> [nHeight, nFile, nStatus]
    txindex,        \* the persisted transaction index: the txids that have an entry
    dirExists,      \* the directory <datadir>/blocks exists
    dir,            \* the names of the entries of <datadir>/blocks
    lock,           \* the holder of the lock on <datadir>/.lock
    bestTip,        \* the tip of the best chain (0 until it is first activated)
    tipOf,          \* the block each process activated, 0 if none (a history variable)
    pc,             \* the place of each process in PurgeDB
    mapBlockIndex,  \* the block records in the memory of each process
    chainHeight,    \* chainActive.Height() in each process
    setNeed,        \* line 19
    setDelete,      \* line 20
    todo,           \* the blocks the loop of line 85 has still to visit
    scan,           \* the entries the loop of line 104 has still to visit
    erased,         \* the txids the process passed to EraseTxIndex
    written,        \* the blocks the process passed to WriteBlockIndex
    readFailed,     \* the blocks whose ReadBlockFromDisk failed in the process
    writeFailed,    \* the blocks whose WriteBlockIndex failed in the process
    removed,        \* the names the process passed to remove()
    outcome,        \* how the process came to the label fail
    exitCode,       \* the exit status: NoExit before, the argument of exit(), or Aborted
    initial,        \* the persistent state before the first process: [disk, txindex, dir]
                    \* (a history variable)
    sched           \* "single": one process; "sequential": one after the other;
                    \* "concurrent": both started together

constVars == <<initial, sched>>
envVars == <<diskIndex, txindex, dirExists, dir, lock, bestTip, tipOf, constVars>>
procVars == <<pc, mapBlockIndex, chainHeight, setNeed, setDelete, todo, scan>>
logVars == <<erased, written, readFailed, writeFailed, removed, outcome, exitCode>>
vars == <<envVars, procVars, logVars>>

Directories == { d \in SUBSET NameUniverse : Cardinality(d) <= MaxDirEntries }

\* The processes before they start.
InitProc ==
    /\ bestTip = 0
    /\ tipOf = [i \in Inst |-> 0]
    /\ pc = [i \in Inst |-> "start"]
    /\ mapBlockIndex = [i \in Inst |-> <<>>]
    /\ chainHeight = [i \in Inst |-> NoHeight]
    /\ setNeed = [i \in Inst |-> {}]
    /\ setDelete = [i \in Inst |-> {}]
    /\ todo = [i \in Inst |-> {}]
    /\ scan = [i \in Inst |-> {}]
    /\ erased = [i \in Inst |-> {}]
    /\ written = [i \in Inst |-> {}]
    /\ readFailed = [i \in Inst |-> {}]
    /\ writeFailed = [i \in Inst |-> {}]
    /\ removed = [i \in Inst |-> {}]
    /\ outcome = [i \in Inst |-> "running"]
    /\ exitCode = [i \in Inst |-> NoExit]

\* The blocks directory of a node that has written the files of file 0.
FilesOfFile0 == { {Name_blk0, Name_rev0} }

\* The history variable `initial`: the persistent state before the first
\* process, in the specifications that compare with it; empty in the others.
Recorded == initial = [disk |-> diskIndex, txindex |-> txindex, dir |-> dir]
NotRecorded == initial = [disk |-> <<>>, txindex |-> {}, dir |-> {}]

\* The data directory: block b at height height[b], its file and flags any,
\* the blocks directory missing or one of dirs.
InitData(height, dirs) ==
    /\ \E f \in [Blocks -> Files], s \in [Blocks -> Statuses] :
          diskIndex = [b \in Blocks |->
                          [nHeight |-> height[b], nFile |-> f[b], nStatus |-> s[b]]]
    /\ txindex = TxIndexOf(diskIndex)
    /\ dirExists \in BOOLEAN
    /\ dir \in IF dirExists THEN dirs ELSE {{}}

Init ==
    /\ InitData([b \in Blocks |-> BlockHeight(b)], Directories)
    /\ NotRecorded
    /\ lock \in {Free, Node}
    /\ sched = "sequential"
    /\ InitProc

\* Process i may run: the first, or the next one once the one before has exited
\* when the pass is run again; any process when the processes are started
\* concurrently.
MayRun(i) ==
    IF i = 1 \/ sched = "concurrent" THEN TRUE
    ELSE sched = "sequential" /\ pc[i - 1] = "exited"

\* A failed try_lock() that does not jump: the pass goes on without the lock.
GotoFail_LockFallsThrough(i, why) ==
    /\ pc' = [pc EXCEPT ![i] = IF why = "lock" THEN "load" ELSE "fail"]
    /\ outcome' = [outcome EXCEPT ![i] = why]

\* goto fail, for the reason why.
GotoFail(i, why) ==
    /\ pc' = [pc EXCEPT ![i] = "fail"]
    /\ outcome' = [outcome EXCEPT ![i] = why]

\* An exception nobody catches leaves PurgeDB: std::terminate() aborts the
\* process.  Neither unlock() nor exit() is called; the memory of the process
\* is gone and the system drops the lock it held.
Terminate(i) ==
    /\ pc' = [pc EXCEPT ![i] = "exited"]
    /\ outcome' = [outcome EXCEPT ![i] = "terminated"]
    /\ exitCode' = [exitCode EXCEPT ![i] = Aborted]
    /\ lock' = Unlock(lock, i)
    /\ mapBlockIndex' = [mapBlockIndex EXCEPT ![i] = <<>>]
    /\ chainHeight' = [chainHeight EXCEPT ![i] = NoHeight]
    /\ setNeed' = [setNeed EXCEPT ![i] = {}]
    /\ setDelete' = [setDelete EXCEPT ![i] = {}]
    /\ todo' = [todo EXCEPT ![i] = {}]
    /\ scan' = [scan EXCEPT ![i] = {}]
    /\ erased' = [erased EXCEPT ![i] = {}]
    /\ written' = [written EXCEPT ![i] = {}]
    /\ readFailed' = [readFailed EXCEPT ![i] = {}]
    /\ writeFailed' = [writeFailed EXCEPT ![i] = {}]
    /\ removed' = [removed EXCEPT ![i] = {}]

\* Lines 26-30 without the test of try_lock(): the pass always goes on.
TryLock_Blind(i) ==
    /\ MayRun(i)
    /\ pc[i] = "start"
    /\ lock' = i
    /\ pc' = [pc EXCEPT ![i] = "load"]
    /\ UNCHANGED <<diskIndex, txindex, dirExists, dir, bestTip, tipOf, constVars>>
    /\ UNCHANGED <<mapBlockIndex, chainHeight, setNeed, setDelete, todo, scan>>
    /\ UNCHANGED <<erased, written, readFailed, writeFailed, removed, outcome, exitCode>>

\* Lines 26-30.
TryLock(i) ==
    /\ MayRun(i)
    /\ pc[i] = "start"
    /\ IF lock = Free
       THEN /\ lock' = i
            /\ pc' = [pc EXCEPT ![i] = "load"]
            /\ UNCHANGED outcome
       ELSE /\ GotoFail(i, "lock")
            /\ UNCHANGED lock
    /\ UNCHANGED <<diskIndex, txindex, dirExists, dir, bestTip, tipOf, constVars>>
    /\ UNCHANGED <<mapBlockIndex, chainHeight, setNeed, setDelete, todo, scan>>
    /\ UNCHANGED <<erased, written, readFailed, writeFailed, removed, exitCode>>

\* Lines 35-44: LoadBlockIndex() fills mapBlockIndex from the block tree, or fails.
LoadBlockIndex(i) ==
    /\ MayRun(i)
    /\ pc[i] = "load"
    /\ \E ok \in BOOLEAN :
          IF ok
          THEN /\ mapBlockIndex' = [mapBlockIndex EXCEPT ![i] = diskIndex]
               /\ pc' = [pc EXCEPT ![i] = "activate"]
               /\ UNCHANGED outcome
          ELSE /\ GotoFail(i, "load")
               /\ UNCHANGED mapBlockIndex
    /\ UNCHANGED envVars
    /\ UNCHANGED <<chainHeight, setNeed, setDelete, todo, scan>>
    /\ UNCHANGED <<erased, written, readFailed, writeFailed, removed, exitCode>>

\* Lines 46-49: ActivateBestChain() makes a block that has its data the tip of
\* the active chain (any such block, in every process), or fails.
ActivateBestChain(i) ==
    /\ MayRun(i)
    /\ pc[i] = "activate"
    /\ \/ \E t \in Blocks :
            /\ BLOCK_HAVE_DATA \in mapBlockIndex[i][t].nStatus
            /\ bestTip' = t
            /\ tipOf' = [tipOf EXCEPT ![i] = t]
            /\ chainHeight' = [chainHeight EXCEPT ![i] = mapBlockIndex[i][t].nHeight]
            /\ pc' = [pc EXCEPT ![i] = "history"]
            /\ UNCHANGED outcome
       \/ /\ GotoFail(i, "activate")
          /\ UNCHANGED <<bestTip, tipOf, chainHeight>>
    /\ UNCHANGED <<diskIndex, txindex, dirExists, dir, lock, constVars>>
    /\ UNCHANGED <<mapBlockIndex, setNeed, setDelete, todo, scan>>
    /\ UNCHANGED <<erased, written, readFailed, writeFailed, removed, exitCode>>

\* Lines 51-55.
CheckHistory(i) ==
    /\ MayRun(i)
    /\ pc[i] = "history"
    /\ IF NotEnoughHistory(chainHeight[i])
       THEN GotoFail(i, "history")
       ELSE /\ pc' = [pc EXCEPT ![i] = "first"]
            /\ UNCHANGED outcome
    /\ UNCHANGED envVars
    /\ UNCHANGED <<mapBlockIndex, chainHeight, setNeed, setDelete, todo, scan>>
    /\ UNCHANGED <<erased, written, readFailed, writeFailed, removed, exitCode>>

\* Lines 61-69.
FirstPass(i) ==
    /\ MayRun(i)
    /\ pc[i] = "first"
    /\ setNeed' = [setNeed EXCEPT ![i] = NeedFiles(mapBlockIndex[i], chainHeight[i])]
    /\ pc' = [pc EXCEPT ![i] = "second"]
    /\ UNCHANGED envVars
    /\ UNCHANGED <<mapBlockIndex, chainHeight, setDelete, todo, scan>>
    /\ UNCHANGED logVars

\* Lines 72-82.
SecondPass(i) ==
    /\ MayRun(i)
    /\ pc[i] = "second"
    /\ setDelete' = [setDelete EXCEPT ![i] =
                        DeleteSet(mapBlockIndex[i], chainHeight[i], setNeed[i])]
    /\ todo' = [todo EXCEPT ![i] = setDelete'[i]]
    /\ pc' = [pc EXCEPT ![i] = "third"]
    /\ UNCHANGED envVars
    /\ UNCHANGED <<mapBlockIndex, chainHeight, setNeed, scan>>
    /\ UNCHANGED logVars

\* Lines 85-95, one iteration: the results of ReadBlockFromDisk and of
\* WriteBlockIndex are not looked at.
ThirdPass(i) ==
    /\ MayRun(i)
    /\ pc[i] = "third"
    /\ \E b \in todo[i], rok \in BOOLEAN, wok \in BOOLEAN :
          LET vtx == ReadBlockFromDisk(b, rok)
              rec == [mapBlockIndex[i][b] EXCEPT
                          !.nStatus = ClearFlags(mapBlockIndex[i][b].nStatus)]
          IN  /\ txindex' = EraseTxIndex(txindex, vtx)
              /\ erased' = [erased EXCEPT ![i] = @ \cup vtx]
              /\ mapBlockIndex' = [mapBlockIndex EXCEPT ![i][b] = rec]
              /\ diskIndex' = WriteBlockIndex(diskIndex, b, rec, wok)
              /\ written' = [written EXCEPT ![i] = @ \cup {b}]
              /\ readFailed' = [readFailed EXCEPT ![i] = IF rok THEN @ ELSE @ \cup {b}]
              /\ writeFailed' = [writeFailed EXCEPT ![i] = IF wok THEN @ ELSE @ \cup {b}]
              /\ todo' = [todo EXCEPT ![i] = @ \ {b}]
    /\ UNCHANGED <<dirExists, dir, lock, bestTip, tipOf, constVars>>
    /\ UNCHANGED <<pc, chainHeight, setNeed, setDelete, scan>>
    /\ UNCHANGED <<removed, outcome, exitCode>>

\* Lines 97-104, after the loop of line 85 has ended: the test of exists(),
\* then the directory_iterator of line 104 opens the directory, or throws
\* (pathBlocks is no directory, or cannot be read).
CheckBlocksDir(i) ==
    /\ MayRun(i)
    /\ pc[i] = "third"
    /\ todo[i] = {}
    /\ IF ~ dirExists
       THEN /\ GotoFail(i, "nodir")
            /\ UNCHANGED <<lock, scan, mapBlockIndex, chainHeight, setNeed, setDelete, todo>>
            /\ UNCHANGED <<erased, written, readFailed, writeFailed, removed, exitCode>>
       ELSE \E opened \in BOOLEAN :
               IF opened
               THEN /\ scan' = [scan EXCEPT ![i] = dir]
                    /\ pc' = [pc EXCEPT ![i] = "reap"]
                    /\ UNCHANGED <<lock, outcome, mapBlockIndex, chainHeight,
                                   setNeed, setDelete, todo>>
                    /\ UNCHANGED <<erased, written, readFailed, writeFailed,
                                   removed, exitCode>>
               ELSE Terminate(i)
    /\ UNCHANGED <<diskIndex, txindex, dirExists, dir, bestTip, tipOf, constVars>>

\* Lines 104-120, one iteration, the entries in any order.  remove() of line
\* 119 removes the entry, or throws (the entry is a directory that is not
\* empty, or may not be removed) and the entry stays.
ReapEntry(i) ==
    /\ MayRun(i)
    /\ pc[i] = "reap"
    /\ \E fname \in scan[i] :
          IF ReapDeletes(fname, setNeed[i])
          THEN \E done \in BOOLEAN :
                  IF done
                  THEN /\ scan' = [scan EXCEPT ![i] = @ \ {fname}]
                       /\ dir' = dir \ {fname}
                       /\ removed' = [removed EXCEPT ![i] = @ \cup {fname}]
                       /\ UNCHANGED <<lock, pc, mapBlockIndex, chainHeight,
                                      setNeed, setDelete, todo>>
                       /\ UNCHANGED <<erased, written, readFailed, writeFailed,
                                      outcome, exitCode>>
                  ELSE /\ Terminate(i)
                       /\ UNCHANGED dir
          ELSE /\ scan' = [scan EXCEPT ![i] = @ \ {fname}]
               /\ UNCHANGED <<dir, removed, lock>>
               /\ UNCHANGED <<pc, mapBlockIndex, chainHeight, setNeed, setDelete, todo>>
               /\ UNCHANGED <<erased, written, readFailed, writeFailed, outcome, exitCode>>
    /\ UNCHANGED <<diskIndex, txindex, dirExists, bestTip, tipOf, constVars>>

\* The loop of line 104 ends and control falls through to the label fail.
ReapEnd(i) ==
    /\ MayRun(i)
    /\ pc[i] = "reap"
    /\ scan[i] = {}
    /\ GotoFail(i, "completed")
    /\ UNCHANGED envVars
    /\ UNCHANGED <<mapBlockIndex, chainHeight, setNeed, setDelete, todo, scan>>
    /\ UNCHANGED <<erased, written, readFailed, writeFailed, removed, exitCode>>

\* Lines 122-123: the label fail, lock.unlock().
UnlockAtFail(i) ==
    /\ MayRun(i)
    /\ pc[i] = "fail"
    /\ lock' = Unlock(lock, i)
    /\ pc' = [pc EXCEPT ![i] = "exit"]
    /\ UNCHANGED <<diskIndex, txindex, dirExists, dir, bestTip, tipOf, constVars>>
    /\ UNCHANGED <<mapBlockIndex, chainHeight, setNeed, setDelete, todo, scan>>
    /\ UNCHANGED logVars

\* Line 124: exit(0); the memory of the process is gone.
Exit(i) ==
    /\ MayRun(i)
    /\ pc[i] = "exit"
    /\ UNCHANGED lock
    /\ exitCode' = [exitCode EXCEPT ![i] = EXIT_STATUS]
    /\ pc' = [pc EXCEPT ![i] = "exited"]
    /\ mapBlockIndex' = [mapBlockIndex EXCEPT ![i] = <<>>]
    /\ chainHeight' = [chainHeight EXCEPT ![i] = NoHeight]
    /\ setNeed' = [setNeed EXCEPT ![i] = {}]
    /\ setDelete' = [setDelete EXCEPT ![i] = {}]
    /\ erased' = [erased EXCEPT ![i] = {}]
    /\ written' = [written EXCEPT ![i] = {}]
    /\ readFailed' = [readFailed EXCEPT ![i] = {}]
    /\ writeFailed' = [writeFailed EXCEPT ![i] = {}]
    /\ removed' = [removed EXCEPT ![i] = {}]
    /\ UNCHANGED <<diskIndex, txindex, dirExists, dir, bestTip, tipOf, constVars>>
    /\ UNCHANGED <<todo, scan, outcome>>

Next ==
    \E i \in Inst :
        \/ TryLock(i)
        \/ LoadBlockIndex(i)
        \/ ActivateBestChain(i)
        \/ CheckHistory(i)
        \/ FirstPass(i)
        \/ SecondPass(i)
        \/ ThirdPass(i)
        \/ CheckBlocksDir(i)
        \/ ReapEntry(i)
        \/ ReapEnd(i)
        \/ UnlockAtFail(i)
        \/ Exit(i)

Spec == Init /\ [][Next]_vars

\* ------------------------------------------------- further specifications
\* One pass from any data directory, the lock free or held by a node.
InitOne ==
    /\ InitData([b \in Blocks |-> BlockHeight(b)], Directories)
    /\ NotRecorded
    /\ lock \in {Free, Node}
    /\ sched = "single"
    /\ InitProc

SpecOne == InitOne /\ [][Next]_vars

\* One pass with the files of file 0 in the blocks directory.
InitFair ==
    /\ InitData([b \in Blocks |-> BlockHeight(b)], FilesOfFile0)
    /\ NotRecorded
    /\ lock \in {Free, Node}
    /\ sched = "single"
    /\ InitProc

\* The pass under weak fairness: a process that can take a step takes one
\* (PurgeDB runs in one thread and none of its calls waits for another process).
FairSpec == InitFair /\ [][Next]_vars /\ WF_vars(Next)

\* An index with a stale fork: blocks 1 and 2 at height 0, the later blocks at
\* heights 2, 3, ... (as in the scenario of heights 3900, 4200 and 5000).
ForkHeight(b) == IF b <= 2 THEN 0 ELSE b - 1

InitFork ==
    /\ InitData([b \in Blocks |-> ForkHeight(b)], Directories)
    /\ Recorded
    /\ lock = Free
    /\ sched = "single"
    /\ InitProc

\* One pass on the index with a fork.
SpecFork == InitFork /\ [][Next]_vars

\* block.vtx: the transactions of a block in the order of the block.
VtxOrder(b) == IF b = 1 THEN <<1, 2>> ELSE <<b>>

\* What a process killed inside an iteration of lines 85-95 has erased of the
\* block of that iteration: the first k transactions of block.vtx, for any k
\* (the record of the block is not yet written).
PartialErases(i) ==
    IF pc[i] = "third"
    THEN {{}} \cup UNION { { { VtxOrder(b)[j] : j \in 1..k } : k \in 0..Len(VtxOrder(b)) } :
                            b \in todo[i] }
    ELSE {{}}

\* The process dies (a crash, a kill, a power cut to the process), between two
\* statements or inside an iteration of the third loop: its memory is gone,
\* exit() is not called, and the system drops the lock it held.
Crash(i) ==
    /\ MayRun(i)
    /\ pc[i] \in {"load", "activate", "history", "first", "second", "third", "reap",
                  "fail", "exit"}
    /\ \E part \in PartialErases(i) : txindex' = EraseTxIndex(txindex, part)
    /\ lock' = Unlock(lock, i)
    /\ pc' = [pc EXCEPT ![i] = "exited"]
    /\ outcome' = [outcome EXCEPT ![i] = "crashed"]
    /\ mapBlockIndex' = [mapBlockIndex EXCEPT ![i] = <<>>]
    /\ chainHeight' = [chainHeight EXCEPT ![i] = NoHeight]
    /\ setNeed' = [setNeed EXCEPT ![i] = {}]
    /\ setDelete' = [setDelete EXCEPT ![i] = {}]
    /\ todo' = [todo EXCEPT ![i] = {}]
    /\ scan' = [scan EXCEPT ![i] = {}]
    /\ erased' = [erased EXCEPT ![i] = {}]
    /\ written' = [written EXCEPT ![i] = {}]
    /\ readFailed' = [readFailed EXCEPT ![i] = {}]
    /\ writeFailed' = [writeFailed EXCEPT ![i] = {}]
    /\ removed' = [removed EXCEPT ![i] = {}]
    /\ UNCHANGED <<diskIndex, dirExists, dir, bestTip, tipOf, constVars>>
    /\ UNCHANGED exitCode

NextCrash ==
    \/ Next
    \/ \E i \in Inst : Crash(i)

InitCrash ==
    /\ InitData([b \in Blocks |-> ForkHeight(b)], FilesOfFile0)
    /\ Recorded
    /\ lock = Free
    /\ sched = "sequential"
    /\ InitProc

\* The pass, interrupted at any point or not, and its re-run.
SpecCrash == InitCrash /\ [][NextCrash]_vars

\* Two processes started concurrently on the same data directory.
InitConc ==
    /\ InitData([b \in Blocks |-> ForkHeight(b)], FilesOfFile0)
    /\ NotRecorded
    /\ lock = Free
    /\ sched = "concurrent"
    /\ InitProc

SpecConc == InitConc /\ [][Next]_vars

\* ================================================================ claims
\* What the claims speak of, stated without the operators of the pass.
Tags == { <<"b","l","k">>, <<"r","e","v">> }
DotDat == <<".","d","a","t">>
AllDigits(str) == str # <<>> /\ \A k \in 1..Len(str) : str[k] \in DigitChars

RECURSIVE DecimalValue(_)
DecimalValue(str) ==
    IF str = <<>> THEN 0
    ELSE 10 * DecimalValue(SubSeq(str, 1, Len(str) - 1)) + DigitVal(str[Len(str)])

\* A container file: a tag, a decimal index, ".dat".
IsContainerName(fname) ==
    /\ Len(fname) >= 8
    /\ SubSeq(fname, 1, 3) \in Tags
    /\ SubSeq(fname, Len(fname) - 3, Len(fname)) = DotDat
    /\ AllDigits(SubSeq(fname, 4, Len(fname) - 4))
ContainerIndex(fname) == DecimalValue(SubSeq(fname, 4, Len(fname) - 4))

\* A 12-character container name: a tag, digits only, ".dat".
IsExactName(fname) == Len(fname) = 12 /\ IsContainerName(fname)

TipHeight == IF bestTip = 0 THEN NoHeight ELSE diskIndex[bestTip].nHeight
Protected(b) == bestTip # 0 /\ diskIndex[b].nHeight + MIN_HISTORY >= TipHeight
OldBlock(b) == bestTip # 0 /\ diskIndex[b].nHeight + MIN_HISTORY < TipHeight
HasFlags(rec) == rec.nStatus \cap {BLOCK_HAVE_DATA, BLOCK_HAVE_UNDO} # {}

\* Process i has come to the label fail after the loop of line 104.
Completed(i) == pc[i] = "fail" /\ outcome[i] = "completed"
\* Process i is past the first pass.
PastFirstPass(i) ==
    \/ pc[i] \in {"second", "third", "reap"}
    \/ pc[i] = "fail" /\ outcome[i] \in {"nodir", "completed"}

\* C1: no pass removes a blk/rev container file whose index is the file-id of
\* a block with height + MIN_HISTORY >= tip height, also when older blocks
\* that still have data share that file-id.
C1_ProtectedFileKept ==
    \A i \in Inst : \A fname \in removed[i] :
        IsContainerName(fname) =>
            \A b \in Blocks :
                Protected(b) => diskIndex[b].nFile # ContainerIndex(fname)

\* C1 witness: a completed pass removed a file and kept blk00000.dat, whose
\* file 0 holds a protected block and an older block that has data.
C1_Witness ==
    /\ Completed(1)
    /\ removed[1] # {}
    /\ Name_blk0 \in dir
    /\ \E b \in Blocks, c \in Blocks :
          /\ Protected(b) /\ diskIndex[b].nFile = 0
          /\ OldBlock(c) /\ diskIndex[c].nFile = 0 /\ HasFlags(diskIndex[c])

\* C2: after the first pass the file-id of every block with
\* height + MIN_HISTORY >= tip height is in setNeed, whatever its flags.
C2_WindowFilesNeeded ==
    \A i \in Inst :
        PastFirstPass(i) =>
            \A b \in Blocks :
                Protected(b) => mapBlockIndex[i][b].nFile \in setNeed[i]

\* C2 witness: past the first pass, a block in the window has neither flag and
\* is the only block in the window with its file-id.
C2_Witness ==
    /\ PastFirstPass(1)
    /\ \E b \in Blocks :
          /\ Protected(b)
          /\ ~ HasFlags(mapBlockIndex[1][b])
          /\ \A c \in Blocks \ {b} :
                Protected(c) => mapBlockIndex[1][c].nFile # mapBlockIndex[1][b].nFile

\* C3 (as claimed): whenever a pass has removed a container file, no persisted
\* block record with that file-id has HAVE_DATA or HAVE_UNDO.
C3_ClearedBeforeRemoved ==
    \A i \in Inst : \A fname \in removed[i] :
        IsContainerName(fname) =>
            \A b \in Blocks :
                diskIndex[b].nFile = ContainerIndex(fname) => ~ HasFlags(diskIndex[b])

\* C4: a pass whose tip height is at most MIN_HISTORY stops before the first
\* pass: it writes no record, erases no transaction-index entry and removes
\* no file.
C4_ShortChainUntouched ==
    \A i \in Inst :
        (chainHeight[i] # NoHeight /\ chainHeight[i] <= MIN_HISTORY) =>
            /\ pc[i] \in {"history", "fail", "exit"}
            /\ setNeed[i] = {} /\ setDelete[i] = {}
            /\ written[i] = {} /\ erased[i] = {} /\ removed[i] = {}

\* C4 witness: the pass has stopped for a tip height of exactly MIN_HISTORY,
\* with a block that has data and a file the reaper would remove.
C4_Witness ==
    /\ pc[1] = "fail" /\ outcome[1] = "history"
    /\ chainHeight[1] = MIN_HISTORY
    /\ \E b \in Blocks : HasFlags(diskIndex[b])
    /\ Name_notes \in dir

\* C5 (as claimed): once ReadBlockFromDisk has failed for a block, that block
\* is not written, the pass does not complete and removes no file.
C5_ReadFailureAborts ==
    \A i \in Inst :
        readFailed[i] # {} =>
            /\ readFailed[i] \cap written[i] = {}
            /\ outcome[i] # "completed"
            /\ removed[i] = {}

\* C6 (as claimed): once WriteBlockIndex has failed, the pass does not
\* complete and removes no file.
C6_WriteFailureAborts ==
    \A i \in Inst :
        writeFailed[i] # {} => outcome[i] # "completed" /\ removed[i] = {}

\* C7 (as claimed): the exit status of a pass that was aborted differs from the
\* exit status of a pass that completed.
C7_AbortDistinguishable ==
    \A i \in Inst, j \in Inst :
        (/\ pc[i] = "exited" /\ outcome[i] = "completed"
         /\ pc[j] = "exited" /\ outcome[j] # "completed")
            => exitCode[i] # exitCode[j]

\* C8 (as claimed): a pass run after a completed pass, with the same tip,
\* selects no block, writes no record and removes no file.
C8_SecondPassIdle ==
    (pc[1] = "exited" /\ outcome[1] = "completed" /\ tipOf[2] = tipOf[1]) =>
        /\ setDelete[2] = {}
        /\ written[2] = {}
        /\ removed[2] = {}

\* C9 (as claimed): every transaction of a block whose cleared record has been
\* passed to WriteBlockIndex has been erased from the transaction index.
C9_TxErasedWhenCleared ==
    \A i \in Inst : \A b \in written[i] :
        Vtx(b) \subseteq erased[i] /\ Vtx(b) \cap txindex = {}

\* C10 (as claimed): every name a pass removes is twelve characters long: a
\* tag blk or rev, digits only, ".dat".
C10_OnlyExactNamesRemoved ==
    \A i \in Inst : \A fname \in removed[i] : IsExactName(fname)

\* C11: a pass that holds the lock on the data directory comes to exit with
\* the lock released, on every path: completion and each early abort.
C11_LockReleased ==
    \A i \in Inst : (lock = i) ~> (pc[i] = "exited" /\ lock # i)

\* C11 witness: the pass took the lock, stopped for the missing blocks
\* directory after clearing a block, and has exited; the lock is free.
C11_Witness ==
    /\ pc[1] = "exited" /\ outcome[1] = "nodir"
    /\ exitCode[1] = EXIT_STATUS
    /\ \E b \in Blocks : OldBlock(b) /\ ~ HasFlags(diskIndex[b])
    /\ lock = Free

\* C12: a pass stopped by a failed lock, a failed load or a failed activation
\* has passed nothing to WriteBlockIndex, EraseTxIndex or remove() and has
\* classified nothing.
C12_EarlyAbortTouchesNothing ==
    \A i \in Inst :
        outcome[i] \in {"lock", "load", "activate"} =>
            /\ written[i] = {} /\ erased[i] = {} /\ removed[i] = {}
            /\ setNeed[i] = {} /\ setDelete[i] = {}

\* C12 witness: the lock is held by a node and the first pass has stopped at
\* the lock, with an old block that has data and a file the reaper would remove.
C12_Witness ==
    /\ pc[1] = "fail" /\ outcome[1] = "lock"
    /\ lock = Node
    /\ HasFlags(diskIndex[1])
    /\ Name_notes \in dir

\* Process i is past lock acquisition and before the unlock() of line 123.
Working(i) ==
    \/ pc[i] \in {"load", "activate", "history", "first", "second", "third", "reap"}
    \/ pc[i] = "fail" /\ outcome[i] # "lock"

\* C13: with two processes started concurrently, a process between lock
\* acquisition and its unlock() holds the lock and no other process is there;
\* and every step that changes a record, the transaction index or the
\* directory is a step of that process: no other process writes a record,
\* erases an entry or removes a file.
C13_OneInstanceWorks ==
    /\ [](\A i \in Inst :
            Working(i) => (lock = i /\ \A j \in Inst \ {i} : ~ Working(j)))
    /\ [][ /\ \A i \in Inst :
                (\/ written'[i] \ written[i] # {}
                 \/ erased'[i] \ erased[i] # {}
                 \/ removed'[i] \ removed[i] # {}) => (Working(i) /\ lock = i)
           /\ (diskIndex' # diskIndex \/ txindex' # txindex \/ dir' # dir) =>
                \E i \in Inst : Working(i) /\ lock = i /\ pc[i] \in {"third", "reap"}
      ]_vars

\* C13 witness: both processes were started; process 1 has completed its pass
\* and called unlock() but not yet exit(); process 2 has taken the lock and
\* has written a record in its third loop.
C13_Witness ==
    /\ sched = "concurrent"
    /\ pc[1] = "exit" /\ outcome[1] = "completed"
    /\ lock = 2
    /\ pc[2] = "third" /\ written[2] # {}

\* What one uninterrupted pass leaves of the initial state, for the tip of the
\* chain and the set of blocks whose record the store failed to persist.
ExpectedIndex(failed) ==
    LET need == NeedFiles(initial.disk, TipHeight)
        del == DeleteSet(initial.disk, TipHeight, need)
    IN  [b \in Blocks |->
            IF b \in del \ failed
            THEN [initial.disk[b] EXCEPT !.nStatus = @ \ {BLOCK_HAVE_DATA, BLOCK_HAVE_UNDO}]
            ELSE initial.disk[b]]
ExpectedFiles ==
    { fname \in initial.dir : ~ ReapDeletes(fname, NeedFiles(initial.disk, TipHeight)) }

\* The re-run has the tip of the interrupted pass (a pass interrupted before
\* line 46 had none).
SameTip == tipOf[1] \in {0, tipOf[2]}

\* C14: a pass that completes, with the same tip, after the pass before it was
\* interrupted leaves the persisted flags and the files that an uninterrupted
\* pass leaves: the first pass, when it completes, and the re-run after a
\* crash both end in ExpectedIndex and ExpectedFiles.
C14_RerunAfterCrashSameResult ==
    \A i \in Inst :
        (Completed(i) /\ (i = 1 \/ (outcome[1] \in {"crashed", "terminated"} /\ SameTip))) =>
            /\ diskIndex = ExpectedIndex(writeFailed[i])
            /\ dir = ExpectedFiles

\* C14 witness: the first pass cleared block 1 and crashed before the file
\* loop; the re-run cleared block 2 and removed the orphaned blk00000.dat.
C14_Witness ==
    /\ outcome[1] = "crashed"
    /\ tipOf[1] # 0 /\ tipOf[2] = tipOf[1]
    /\ Completed(2)
    /\ written[2] = {2} /\ writeFailed[2] = {}
    /\ HasFlags(initial.disk[1]) /\ ~ HasFlags(diskIndex[1])
    /\ initial.disk[1].nFile = 0
    /\ Name_blk0 \in removed[2]

\* A container name with a 9-digit index: 16 characters.
IsNineDigitName(fname) == Len(fname) = 16 /\ IsContainerName(fname)
\* Process i has reached the file loop of line 104 and has not left by exit().
InFileLoop(i) ==
    pc[i] = "reap" \/ (pc[i] \in {"fail", "exit"} /\ outcome[i] = "completed")
\* The entries the file loop of process i has gone past: those it removed and
\* those it left in the directory.
Enumerated(i) == (dir \cup removed[i]) \ scan[i]

\* C15 (as claimed): in a pass that has reached the file loop, an entry
\* {tag}{9 digits}.dat the loop has gone past is removed if and only if its
\* index is not in setNeed.
C15_NineDigitRemovedIffNotNeeded ==
    \A i \in Inst :
        InFileLoop(i) =>
            \A fname \in Enumerated(i) :
                IsNineDigitName(fname) =>
                    (fname \in removed[i] <=> ContainerIndex(fname) \notin setNeed[i])

\* C15 with only the digits amended: whenever a pass leaves the file loop, an
\* entry {tag}{5 digits}.dat is in the directory only if its index is in
\* setNeed.  It fails where remove() throws: that entry and the entries not
\* yet enumerated stay, whatever their index.
C15_FiveDigitIffAtEveryEnd ==
    [][ \A i \in Inst :
          (pc[i] = "reap" /\ pc'[i] # "reap") =>
              \A fname \in dir' :
                  IsExactName(fname) => ContainerIndex(fname) \in setNeed[i]
      ]_vars

\* C15 (amended): in a pass that has reached the file loop,
\*  - an entry {tag}{5 digits}.dat (12 characters) is removed only if its index
\*    is not in setNeed, and once the loop has gone past it, it is removed if
\*    and only if its index is not in setNeed (so for every such entry when the
\*    loop has run to its end), and a removed entry is gone from the directory;
\*  - the blk entry and the rev entry of one index the loop has gone past are
\*    both removed or both kept;
\*  - an entry {tag}{9 digits}.dat (16 characters) is never removed;
\*  - a step takes out of the directory only one entry, and an entry
\*    {tag}{5 digits}.dat only in the file loop with its index not in setNeed;
\*  - when remove() or the directory iterator throws, the pass ends there with
\*    the directory as it was: the entry at hand and the entries not yet
\*    enumerated stay.
C15_FiveDigitRemovedIffNotNeeded ==
    /\ [](\A i \in Inst :
            InFileLoop(i) =>
                /\ removed[i] \cap dir = {}
                /\ \A fname \in dir \cup removed[i] :
                      /\ IsExactName(fname) =>
                            /\ fname \in removed[i] =>
                                  ContainerIndex(fname) \notin setNeed[i]
                            /\ fname \in Enumerated(i) =>
                                  (fname \in removed[i] <=>
                                      ContainerIndex(fname) \notin setNeed[i])
                      /\ IsNineDigitName(fname) => fname \notin removed[i]
                /\ \A f \in Enumerated(i), g \in Enumerated(i) :
                      (/\ IsExactName(f) /\ IsExactName(g)
                       /\ ContainerIndex(f) = ContainerIndex(g))
                          => (f \in removed[i] <=> g \in removed[i]))
    /\ [][ /\ dir' \subseteq dir
           /\ Cardinality(dir \ dir') <= 1
           /\ \A fname \in dir \ dir' :
                 /\ ~ IsNineDigitName(fname)
                 /\ IsExactName(fname) =>
                       \E i \in Inst : /\ pc[i] = "reap" /\ pc'[i] = "reap"
                                       /\ fname \in removed'[i]
                                       /\ ContainerIndex(fname) \notin setNeed[i]
           /\ \A i \in Inst :
                 (outcome'[i] = "terminated" /\ outcome[i] # "terminated") =>
                     dir' = dir
      ]_vars

\* C15 witness: a completed pass whose setNeed does not hold 0 has removed
\* blk00000.dat and rev00000.dat.
C15_Witness ==
    /\ Completed(1)
    /\ 0 \notin setNeed[1]
    /\ Name_blk0 \in removed[1]
    /\ Name_rev0 \in removed[1]

\* C16 (as claimed): a pass stopped for the missing blocks directory has
\* removed no file, and every block of setDelete has its flags cleared in
\* memory and in the persisted record.
C16_NoDirAfterMutation ==
    \A i \in Inst :
        (pc[i] = "fail" /\ outcome[i] = "nodir") =>
            /\ removed[i] = {}
            /\ \A b \in setDelete[i] :
                  /\ b \in written[i]
                  /\ ~ HasFlags(mapBlockIndex[i][b])
                  /\ ~ HasFlags(diskIndex[b])

\* Process i has run the second pass and has not yet changed a record.
JustClassified(i) ==
    /\ pc[i] = "third" \/ (pc[i] = "fail" /\ outcome[i] \in {"nodir", "completed"})
                       \/ pc[i] = "reap"
    /\ written[i] = {}

\* C17: setDelete, as the second pass computes it, is exactly the set of
\* blocks with height + MIN_HISTORY < tip height, HAVE_DATA or HAVE_UNDO set,
\* and file-id not in setNeed; so an old block that shares its file-id with a
\* block in the window is not in it, nor is a block with neither flag.
C17_DeleteSetExact ==
    \A i \in Inst :
        JustClassified(i) =>
            /\ setDelete[i] = { b \in Blocks : /\ OldBlock(b)
                                                /\ HasFlags(mapBlockIndex[i][b])
                                                /\ mapBlockIndex[i][b].nFile \notin setNeed[i] }
            /\ \A b \in setDelete[i], c \in Blocks :
                  Protected(c) => mapBlockIndex[i][c].nFile # mapBlockIndex[i][b].nFile

\* C17 witness: after the second pass, old block 1 has data and shares its
\* file with the protected block 3 and is not selected; old block 2 is.
C17_Witness ==
    /\ pc[1] = "third" /\ written[1] = {}
    /\ OldBlock(1) /\ HasFlags(mapBlockIndex[1][1]) /\ Protected(3)
    /\ mapBlockIndex[1][1].nFile = mapBlockIndex[1][3].nFile
    /\ setDelete[1] = {2}

\* C18: the outcome of a pass does not depend on an order.  The first and the
\* second loop, run over the records in any order, give the setNeed and the
\* setDelete of the pass; and whatever the order in which the third loop took
\* the blocks and the file loop took the entries, a completed first pass ends
\* in the same setNeed, setDelete, persisted flags, erased entries and removed
\* files: those fixed by the initial state, the tip and the store calls that failed.
C18_OrderIndependent ==
    /\ \A i \in Inst :
          /\ pc[i] = "second" =>
                \A o \in BlockOrders :
                    FirstPassLoop(o, mapBlockIndex[i], chainHeight[i], {}) = setNeed[i]
          /\ (pc[i] = "third" /\ written[i] = {}) =>
                \A o \in BlockOrders :
                    SecondPassLoop(o, mapBlockIndex[i], chainHeight[i], setNeed[i], {})
                        = setDelete[i]
    /\ Completed(1) =>
          /\ setNeed[1] = NeedFiles(initial.disk, TipHeight)
          /\ setDelete[1] = DeleteSet(initial.disk, TipHeight, setNeed[1])
          /\ diskIndex = ExpectedIndex(writeFailed[1])
          /\ erased[1] = UNION { Vtx(b) : b \in setDelete[1] \ readFailed[1] }
          /\ txindex = initial.txindex \ erased[1]
          /\ removed[1] = initial.dir \ ExpectedFiles
          /\ dir = ExpectedFiles

\* C18 witness: a completed pass that took two blocks in the third loop and
\* removed two entries in the file loop.
C18_Witness ==
    /\ Completed(1)
    /\ Cardinality(setDelete[1]) = 2
    /\ Cardinality(removed[1]) = 2

\* C19: a step changes a block record, persisted or in the memory of a pass in
\* its third loop, only by clearing HAVE_DATA and HAVE_UNDO of a block of the
\* setDelete of that pass: no record leaves the index, no height or file-id
\* changes, and the record of a block outside setDelete (so of every block in
\* the window) stays as it is.
C19_MutatorFrame ==
    [][ /\ DOMAIN diskIndex' = Blocks
        /\ \A b \in Blocks :
              /\ diskIndex'[b].nHeight = diskIndex[b].nHeight
              /\ diskIndex'[b].nFile = diskIndex[b].nFile
              /\ diskIndex'[b] # diskIndex[b] =>
                    /\ \E i \in Inst : pc[i] = "third" /\ b \in setDelete[i]
                    /\ ~ Protected(b)
                    /\ diskIndex'[b].nStatus
                          = diskIndex[b].nStatus \ {BLOCK_HAVE_DATA, BLOCK_HAVE_UNDO}
              /\ \A i \in Inst :
                    (/\ pc[i] = "third" /\ pc'[i] = "third"
                     /\ mapBlockIndex'[i][b] # mapBlockIndex[i][b]) =>
                        /\ b \in setDelete[i]
                        /\ ~ Protected(b)
                        /\ mapBlockIndex'[i][b] =
                              [mapBlockIndex[i][b] EXCEPT
                                  !.nStatus = @ \ {BLOCK_HAVE_DATA, BLOCK_HAVE_UNDO}]
      ]_vars

\* C19 witness: in the third loop the pass has cleared and persisted block 2;
\* old block 1, outside setDelete, and block 3 in the window keep their flags.
C19_Witness ==
    /\ pc[1] = "third"
    /\ setDelete[1] = {2} /\ written[1] = {2} /\ writeFailed[1] = {}
    /\ ~ HasFlags(diskIndex[2]) /\ HasFlags(initial.disk[2])
    /\ OldBlock(1) /\ HasFlags(diskIndex[1])
    /\ Protected(3) /\ HasFlags(diskIndex[3])

\* C20 (as claimed): every file-id in setNeed is the file-id of a block in the
\* window that has HAVE_DATA or HAVE_UNDO: a record with both flags cleared
\* adds nothing to setNeed.
C20_ClearedRecordNotNeeded ==
    \A i \in Inst :
        PastFirstPass(i) =>
            \A f \in setNeed[i] :
                \E b \in Blocks :
                    /\ Protected(b)
                    /\ HasFlags(diskIndex[b])
                    /\ diskIndex[b].nFile = f

\* Process i has executed lock.unlock() of line 123: it is at line 124, or
\* has left by exit(0).
UnlockCalled(i) == pc[i] = "exit" \/ exitCode[i] = EXIT_STATUS

\* C21 (as claimed): a process whose try_lock() failed performs no unlock()
\* on the lock.
C21_NoUnlockWithoutLock ==
    \A i \in Inst : outcome[i] = "lock" => ~ UnlockCalled(i)

\* The part of C21 the code keeps: the unlock() of a process that does not
\* hold the lock releases nothing, and the lock passes from a process to
\* Free only by the unlock() of that process or by its death.
C21_LockStaysHeld ==
    [][ \A i \in Inst :
          /\ (outcome[i] = "lock" /\ pc[i] = "fail" /\ pc'[i] = "exit") => lock' = lock
          /\ (lock = i /\ lock' # i) =>
                /\ lock' = Free
                /\ (pc[i] = "fail" /\ pc'[i] = "exit") \/ outcome'[i] = "terminated"
      ]_vars

\* A transaction that had an entry in the transaction index before the pass.
HadEntry(t) == t \in initial.txindex

\* C22 (as claimed): when a pass has come to the label fail, every transaction
\* of a block outside setDelete that still has HAVE_DATA, and that had an
\* entry in the transaction index before the pass, still has its entry.
C22_RetainedTxKeepEntry ==
    \A i \in Inst :
        pc[i] = "fail" =>
            \A b \in Blocks \ setDelete[i] :
                BLOCK_HAVE_DATA \in diskIndex[b].nStatus =>
                    \A t \in Vtx(b) : HadEntry(t) => t \in txindex

====
